---- MODULE Spec2Model ----
(***************************************************************************)
(* Taskly: usage metering (UsageService), chat persistence (ChatService)   *)
(* and the AI message pipeline (AIService).                                *)
(*                                                                         *)
(* Time is a counter of instants.  A day has InstantsPerDay instants, the  *)
(* first of which is midnight (00:00:00.000); a month has DaysPerMonth     *)
(* days.  Database tables are sequences of rows in insertion order; a      *)
(* row's id is its position in its table (no row is ever removed).         *)
(***************************************************************************)
EXTENDS Integers, Sequences, FiniteSets, TLC

(***************************************************************************)
(* Bounds of the model.                                                    *)
(***************************************************************************)
NumProcs == 2
InstantsPerDay == 2
DaysPerMonth == 1
MaxRecords == 2
MaxMessages == 2
MaxFragments == 3
MaxShown == 4
MaxConversations == 2
MaxElapses == 3

Procs == 1..NumProcs
InstantsPerMonth == DaysPerMonth * InstantsPerDay
MaxTime == InstantsPerMonth

Shops == {"s1", "s2"}
Roles == {"user", "assistant"}
UsageTypes == {"chat_query", "api_call"}
PlanNames == {"Free Plan", "Pro Plan", "Enterprise Plan"}
Undefined == "undefined"
Counts == {0, 19}

VARIABLES now, subscriptions, usageRecords, chatMessages, req, ai, route, chat,
          conversations, introspection

varsUsage == <<now, subscriptions, usageRecords, chatMessages, req>>

(* the state of the route and of the Chat component, the conversations and
   the introspection service *)
varsRest == <<route, chat, conversations, introspection>>

(***************************************************************************)
(* Values standing for null / undefined.                                   *)
(***************************************************************************)
NoSub == [id |-> 0, shop |-> "", planName |-> "", status |-> ""]
NoCheck == [isWithinLimit |-> FALSE, currentUsage |-> -1, limit |-> 0,
            planName |-> ""]
NoError == [currentUsage |-> -1, limit |-> 0, planName |-> ""]
NoConversation ==
  [id |-> 0, shop |-> "", title |-> "", metadata |-> "", createdAt |-> -1,
   updatedAt |-> -1, isActive |-> FALSE]
NoMessage == [id |-> 0, shop |-> "", role |-> "", timestamp |-> -1]

(***************************************************************************)
(* UsageService.planLimits                                                 *)
(***************************************************************************)
planLimits(planName) ==
  CASE planName = "Free Plan" -> 20
    [] planName = "Pro Plan" -> 1000
    [] planName = "Enterprise Plan" -> 10000
    [] OTHER -> 0

(* this.planLimits[subscription.planName] || 20 *)
LimitOf(planName) ==
  IF planLimits(planName) # 0 THEN planLimits(planName) ELSE 20

IsWithinLimit(limit, currentUsage) ==
  limit = -1 \/ currentUsage < limit

(***************************************************************************)
(* UsageService.getCurrentMonthDateRange: new Date(y, m, 1) is midnight of *)
(* the first day of the month; new Date(y, m + 1, 0) is day 0 of the next  *)
(* month, i.e. midnight of the last day of this month.                     *)
(***************************************************************************)
MonthOf(t) == t \div InstantsPerMonth
DateOf(month, day) == (month * DaysPerMonth + (day - 1)) * InstantsPerDay

startOfMonth(t) == DateOf(MonthOf(t), 1)
endOfMonth(t) == DateOf(MonthOf(t) + 1, 0)

(***************************************************************************)
(* UsageDal                                                                *)
(***************************************************************************)
HasSubscription(shop) == \E i \in 1..Len(subscriptions) : subscriptions[i].shop = shop

(* the where clause of findUnique is missing *)
findSubscription_Any(shop) ==
  IF subscriptions # <<>> THEN subscriptions[1] ELSE NoSub

findSubscription(shop) ==
  IF HasSubscription(shop)
  THEN subscriptions[CHOOSE i \in 1..Len(subscriptions) : subscriptions[i].shop = shop]
  ELSE NoSub

NewSubscription(shop, planName, status) ==
  [id |-> Len(subscriptions) + 1, shop |-> shop, planName |-> planName,
   status |-> status]

NewUsageRecord(shop, subscriptionId, usageType, count) ==
  [id |-> Len(usageRecords) + 1, shop |-> shop,
   subscriptionId |-> subscriptionId, usageType |-> usageType,
   count |-> count, date |-> now]

(* prisma.usageRecord.findMany({where: {shop, date: {gte, lte}, usageType?}}) *)
MatchesWhere(r, shop, gte, lte, usageType) ==
  /\ r.shop = shop
  /\ r.date >= gte
  /\ r.date <= lte
  /\ (usageType # Undefined => r.usageType = usageType)

findUsageRecords(shop, gte, lte, usageType) ==
  SelectSeq(usageRecords, LAMBDA r : MatchesWhere(r, shop, gte, lte, usageType))

(* records.reduce((total, record) => total + record.count, 0) *)
RECURSIVE SumCounts(_)
SumCounts(records) ==
  IF records = <<>> THEN 0
  ELSE Head(records).count + SumCounts(Tail(records))

(***************************************************************************)
(* UsageService.getUsageForCurrentMonth                                    *)
(***************************************************************************)
getUsageForCurrentMonth(shop, usageType) ==
  SumCounts(findUsageRecords(shop, startOfMonth(now), endOfMonth(now), usageType))

(* the default of count is missing *)
CountOrDefault_Raw(count) == count

(* data.count || 1 *)
CountOrDefault(count) == IF count # 0 THEN count ELSE 1

(* usageType: string = "chat_query" *)
UsageTypeOrDefault(usageType) ==
  IF usageType = Undefined THEN "chat_query" ELSE usageType

UsageLimitCheck(subscription, shop, usageType) ==
  [isWithinLimit |-> IsWithinLimit(LimitOf(subscription.planName),
                                   getUsageForCurrentMonth(shop, usageType)),
   currentUsage |-> getUsageForCurrentMonth(shop, usageType),
   limit |-> LimitOf(subscription.planName),
   planName |-> subscription.planName]

(***************************************************************************)
(* ChatService.saveMessage                                                 *)
(***************************************************************************)
(* every role is checked against the limit *)
ChecksUsage_Always(role) == TRUE

ChecksUsage(role) == role = "user"
TracksUsage(role) == role = "user"
(* the check of the result of checkUsageLimit is missing *)
LimitExceeded_Never(usageCheck) == FALSE

LimitExceeded(usageCheck) == ~usageCheck.isWithinLimit
UsageLimitError(usageCheck) ==
  [currentUsage |-> usageCheck.currentUsage, limit |-> usageCheck.limit,
   planName |-> usageCheck.planName]

NewMessage(shop, role) ==
  [id |-> Len(chatMessages) + 1, shop |-> shop, role |-> role,
   timestamp |-> now]

(***************************************************************************)
(* A request is one call of a service method; it advances from one DAL     *)
(* call (await) to the next.  op is the method called from outside, method *)
(* the UsageService / ChatService method the request is currently in, and  *)
(* calls the list of DAL calls the request has made so far.                *)
(***************************************************************************)
Resting == {"idle", "done", "rejected", "failed"}

IdleReq ==
  [op |-> "none", method |-> "none", pc |-> "idle", shop |-> "", role |-> "",
   usageType |-> "", count |-> 0, planName |-> "", subscription |-> NoSub,
   usageCheck |-> NoCheck, error |-> NoError, message |-> NoMessage,
   usage |-> -1, record |-> 0, calls |-> <<>>, before |-> <<>>,
   limit |-> 0, messages |-> <<>>,
   id |-> 0, title |-> "", metadata |-> "", updatedAt |-> -1,
   conversation |-> NoConversation, listed |-> <<>>]

Idle(p) == req[p].pc = "idle"
AtRest(p) == req[p].pc \in Resting

(* the request slot used when requests are served one at a time *)
Main == CHOOSE p \in Procs : \A q \in Procs : p <= q

InitUsage ==
  /\ now = 0
  /\ subscriptions = <<>>
  /\ usageRecords = <<>>
  /\ chatMessages = <<>>
  /\ req = [p \in Procs |-> IdleReq]

(* the clock advances *)
Tick ==
  /\ now < MaxTime
  /\ now' = now + 1
  /\ UNCHANGED <<subscriptions, usageRecords, chatMessages, req, ai, varsRest>>

(***************************************************************************)
(* Calls from the controllers.                                             *)
(***************************************************************************)
SaveMessageCall(shop, role) ==
  [IdleReq EXCEPT !.before = subscriptions, !.op = "saveMessage", !.shop = shop, !.role = role,
     !.usageType = "chat_query",
     !.method = IF ChecksUsage(role) THEN "checkUsageLimit" ELSE "saveMessage",
     !.pc = IF ChecksUsage(role) THEN "find" ELSE "createMessage"]

CallSaveMessage(p, shop, role) ==
  /\ Idle(p)
  /\ req' = [req EXCEPT ![p] = SaveMessageCall(shop, role)]
  /\ UNCHANGED <<now, subscriptions, usageRecords, chatMessages, ai, varsRest>>

CallTrackUsage(p, shop, usageType, count) ==
  /\ Idle(p)
  /\ req' = [req EXCEPT ![p] =
       [IdleReq EXCEPT !.before = subscriptions, !.op = "trackUsage", !.method = "trackUsage",
          !.pc = "find", !.shop = shop, !.usageType = usageType,
          !.count = count]]
  /\ UNCHANGED <<now, subscriptions, usageRecords, chatMessages, ai, varsRest>>

CallCheckUsageLimit(p, shop, usageType) ==
  /\ Idle(p)
  /\ req' = [req EXCEPT ![p] =
       [IdleReq EXCEPT !.before = subscriptions, !.op = "checkUsageLimit", !.method = "checkUsageLimit",
          !.pc = "find", !.shop = shop,
          !.usageType = UsageTypeOrDefault(usageType)]]
  /\ UNCHANGED <<now, subscriptions, usageRecords, chatMessages, ai, varsRest>>

CallGetUsageForCurrentMonth(p, shop, usageType) ==
  /\ Idle(p)
  /\ req' = [req EXCEPT ![p] =
       [IdleReq EXCEPT !.before = subscriptions, !.op = "getUsageForCurrentMonth",
          !.method = "getUsageForCurrentMonth", !.pc = "findUsage",
          !.shop = shop, !.usageType = usageType]]
  /\ UNCHANGED <<now, subscriptions, usageRecords, chatMessages, ai, varsRest>>

CallUpdateSubscription(p, shop, planName) ==
  /\ Idle(p)
  /\ req' = [req EXCEPT ![p] =
       [IdleReq EXCEPT !.before = subscriptions, !.op = "updateSubscription",
          !.method = "updateSubscription", !.pc = "find", !.shop = shop,
          !.planName = planName]]
  /\ UNCHANGED <<now, subscriptions, usageRecords, chatMessages, ai, varsRest>>

(***************************************************************************)
(* UsageService.getOrCreateSubscription, and where its callers go on.      *)
(***************************************************************************)
AfterGetOrCreate(method) ==
  CASE method = "checkUsageLimit" -> "findUsage"
    [] method = "trackUsage" -> "createUsageRecord"
    [] method = "updateSubscription" -> "update"

GetOrCreateFind(p) ==
  /\ req[p].pc = "find"
  /\ LET s == findSubscription(req[p].shop) IN
       req' = [req EXCEPT ![p].subscription = s,
                 ![p].calls = Append(@, "findSubscription"),
                 ![p].pc = IF s = NoSub THEN "create"
                           ELSE AfterGetOrCreate(req[p].method)]
  /\ UNCHANGED <<now, subscriptions, usageRecords, chatMessages, ai, varsRest>>

(* the unique index Subscription_shop_key makes a second create fail *)
GetOrCreateCreate(p) ==
  /\ req[p].pc = "create"
  /\ IF HasSubscription(req[p].shop)
     THEN /\ req' = [req EXCEPT ![p].pc = "failed",
                       ![p].calls = Append(@, "createSubscription")]
          /\ UNCHANGED subscriptions
     ELSE LET s == NewSubscription(req[p].shop, "Free Plan", "active") IN
          /\ subscriptions' = Append(subscriptions, s)
          /\ req' = [req EXCEPT ![p].subscription = s,
                       ![p].calls = Append(@, "createSubscription"),
                       ![p].pc = AfterGetOrCreate(req[p].method)]
  /\ UNCHANGED <<now, usageRecords, chatMessages, ai, varsRest>>

(***************************************************************************)
(* UsageService.checkUsageLimit after getOrCreateSubscription, and         *)
(* ChatService.saveMessage deciding on its result.                         *)
(***************************************************************************)
CheckUsageLimit(p) ==
  /\ req[p].pc = "findUsage"
  /\ req[p].method = "checkUsageLimit"
  /\ LET c == UsageLimitCheck(req[p].subscription, req[p].shop, req[p].usageType) IN
       req' = [req EXCEPT ![p].usageCheck = c,
                 ![p].calls = Append(@, "findUsageRecords"),
                 ![p].error = IF req[p].op = "saveMessage" /\ LimitExceeded(c)
                              THEN UsageLimitError(c) ELSE NoError,
                 ![p].method = IF req[p].op = "saveMessage" /\ ~LimitExceeded(c)
                               THEN "saveMessage" ELSE @,
                 ![p].pc = IF req[p].op = "saveMessage"
                           THEN (IF LimitExceeded(c) THEN "rejected"
                                 ELSE "createMessage")
                           ELSE "done"]
  /\ UNCHANGED <<now, subscriptions, usageRecords, chatMessages, ai, varsRest>>

GetUsageForCurrentMonth(p) ==
  /\ req[p].pc = "findUsage"
  /\ req[p].method = "getUsageForCurrentMonth"
  /\ req' = [req EXCEPT
       ![p].usage = getUsageForCurrentMonth(req[p].shop, req[p].usageType),
       ![p].calls = Append(@, "findUsageRecords"),
       ![p].pc = "done"]
  /\ UNCHANGED <<now, subscriptions, usageRecords, chatMessages, ai, varsRest>>

CreateMessage(p) ==
  /\ req[p].pc = "createMessage"
  /\ Len(chatMessages) < MaxMessages
  /\ LET m == NewMessage(req[p].shop, req[p].role) IN
       /\ chatMessages' = Append(chatMessages, m)
       /\ req' = [req EXCEPT ![p].message = m,
                    ![p].calls = Append(@, "createMessage"),
                    ![p].method = IF TracksUsage(req[p].role)
                                  THEN "trackUsage" ELSE @,
                    ![p].pc = IF TracksUsage(req[p].role) THEN "find"
                              ELSE "done"]
  /\ UNCHANGED <<now, subscriptions, usageRecords, ai, varsRest>>

(* UsageService.trackUsage after getOrCreateSubscription *)
CreateUsageRecord(p) ==
  /\ req[p].pc = "createUsageRecord"
  /\ Len(usageRecords) < MaxRecords
  /\ LET r == NewUsageRecord(req[p].shop, req[p].subscription.id,
                             req[p].usageType, CountOrDefault(req[p].count)) IN
       /\ usageRecords' = Append(usageRecords, r)
       /\ req' = [req EXCEPT ![p].record = r.id,
                    ![p].calls = Append(@, "createUsageRecord"),
                    ![p].pc = "done"]
  /\ UNCHANGED <<now, subscriptions, chatMessages, ai, varsRest>>

(* UsageService.updateSubscription after getOrCreateSubscription *)
UpdateSubscription(p) ==
  /\ req[p].pc = "update"
  /\ IF HasSubscription(req[p].shop)
     THEN LET i == CHOOSE j \in 1..Len(subscriptions) :
                     subscriptions[j].shop = req[p].shop IN
          /\ subscriptions' = [subscriptions EXCEPT
               ![i].planName = req[p].planName, ![i].status = "active"]
          /\ req' = [req EXCEPT ![p].subscription = subscriptions'[i],
                       ![p].calls = Append(@, "updateSubscription"),
                       ![p].pc = "done"]
     ELSE /\ req' = [req EXCEPT ![p].pc = "failed",
                       ![p].calls = Append(@, "updateSubscription")]
          /\ UNCHANGED subscriptions
  /\ UNCHANGED <<now, usageRecords, chatMessages, ai, varsRest>>

(* the caller has taken the result (or the error) of the request *)
Return(p) ==
  /\ AtRest(p)
  /\ ~Idle(p)
  /\ req' = [req EXCEPT ![p] = IdleReq]
  /\ UNCHANGED <<now, subscriptions, usageRecords, chatMessages, ai, varsRest>>

(***************************************************************************)
(* AIService.  A message is the sequence of its characters.                *)
(***************************************************************************)
UpperCaseLetters == <<"A", "B", "C", "D", "E", "F", "G", "H", "I", "J", "K", "L", "M", "N", "O", "P", "Q", "R", "S", "T", "U", "V", "W", "X", "Y", "Z">>
LowerCaseLetters == <<"a", "b", "c", "d", "e", "f", "g", "h", "i", "j", "k", "l", "m", "n", "o", "p", "q", "r", "s", "t", "u", "v", "w", "x", "y", "z">>

(* String.prototype.toLowerCase *)
LowerCaseOf ==
  [c \in {UpperCaseLetters[i] : i \in 1..Len(UpperCaseLetters)} |->
     LowerCaseLetters[CHOOSE i \in 1..Len(UpperCaseLetters) : UpperCaseLetters[i] = c]]

toLowerCaseChar(c) == IF c \in DOMAIN LowerCaseOf THEN LowerCaseOf[c] ELSE c

(* the message is not lower-cased *)
toLowerCase_Identity(str) == str

toLowerCase(str) == [i \in 1..Len(str) |-> toLowerCaseChar(str[i])]

(* String.prototype.includes *)
includes(str, keyword) ==
  \E i \in 1..(Len(str) - Len(keyword) + 1) :
    SubSeq(str, i, i + Len(keyword) - 1) = keyword

queryKeywords ==
  << <<"s", "h", "o", "w">>,
     <<"l", "i", "s", "t">>,
     <<"g", "e", "t">>,
     <<"f", "i", "n", "d">>,
     <<"s", "e", "a", "r", "c", "h">>,
     <<"d", "i", "s", "p", "l", "a", "y">>,
     <<"v", "i", "e", "w">>,
     <<"s", "e", "e">>,
     <<"w", "h", "a", "t">>,
     <<"h", "o", "w", " ", "m", "a", "n", "y">>,
     <<"c", "o", "u", "n", "t">>,
     <<"t", "o", "t", "a", "l">>,
     <<"s", "u", "m">>,
     <<"a", "v", "e", "r", "a", "g", "e">>,
     <<"p", "r", "o", "d", "u", "c", "t", "s">>,
     <<"o", "r", "d", "e", "r", "s">>,
     <<"c", "u", "s", "t", "o", "m", "e", "r", "s">>,
     <<"c", "o", "l", "l", "e", "c", "t", "i", "o", "n", "s">>,
     <<"i", "n", "v", "e", "n", "t", "o", "r", "y">> >>

mutationKeywords ==
  << <<"c", "r", "e", "a", "t", "e">>,
     <<"a", "d", "d">>,
     <<"m", "a", "k", "e">>,
     <<"n", "e", "w">>,
     <<"b", "u", "i", "l", "d">>,
     <<"u", "p", "d", "a", "t", "e">>,
     <<"c", "h", "a", "n", "g", "e">>,
     <<"e", "d", "i", "t">>,
     <<"m", "o", "d", "i", "f", "y">>,
     <<"s", "e", "t">>,
     <<"d", "e", "l", "e", "t", "e">>,
     <<"r", "e", "m", "o", "v", "e">>,
     <<"c", "a", "n", "c", "e", "l">>,
     <<"a", "r", "c", "h", "i", "v", "e">> >>

(* Array.prototype.some *)
some(keywords, lowerMessage) ==
  \E k \in 1..Len(keywords) : includes(lowerMessage, keywords[k])

identifyIntent(message) ==
  LET lowerMessage == toLowerCase(message) IN
  IF some(mutationKeywords, lowerMessage) THEN "mutation"
  ELSE IF some(queryKeywords, lowerMessage) THEN "query"
  ELSE "message"

(***************************************************************************)
(* The messages of the model: up to MaxFragments of these pieces, joined.  *)
(***************************************************************************)
Fragments ==
  << <<"S", "h", "o", "w">>,
     <<"l", "i", "s", "t">>,
     <<"C", "R", "E", "A", "T", "E">>,
     <<"n", "e", "w", "s">>,
     <<"h", "e", "l", "l", "o">>,
     <<" ">>,
     <<"a", "d">>,
     <<"d">>,
     <<"h", "o", "w">>,
     <<"m", "a", "n", "y">> >>

RECURSIVE Join(_)
Join(pieces) ==
  IF pieces = <<>> THEN <<>> ELSE Head(pieces) \o Join(Tail(pieces))

Messages ==
  {Join([i \in DOMAIN f |-> Fragments[f[i]]]) :
     f \in UNION {[1..n -> 1..Len(Fragments)] : n \in 0..MaxFragments}}

(***************************************************************************)
(* The results of AIService.processMessage.  executionResult is the data   *)
(* of the store ("storeData"), the built-in sample products                *)
(* ("mockProducts"), null or undefined (the field is absent).              *)
(***************************************************************************)
NoResult ==
  [query |-> "", explanation |-> "", executionResult |-> "undefined",
   summary |-> "", intent |-> ""]

getMockData(operation) ==
  [executionResult |-> "mockProducts", summary |-> "mockSummary"]

handleMessage(randomResponse) ==
  [query |-> "", explanation |-> "general message",
   executionResult |-> "undefined", summary |-> randomResponse,
   intent |-> "message"]

handleError ==
  [query |-> "", explanation |-> "error", executionResult |-> "undefined",
   summary |-> "trouble processing", intent |-> "message"]

MutationResult ==
  [query |-> "", explanation |-> "mutations not implemented",
   executionResult |-> "undefined", summary |-> "mutations unavailable",
   intent |-> "mutation"]

QueryResult(query, executionResult, summary) ==
  [query |-> query, explanation |-> "generated query",
   executionResult |-> executionResult, summary |-> summary,
   intent |-> "query"]

Responses == {"response1", "response2", "response3"}

IdleAI ==
  [pc |-> "idle", handler |-> "none", message |-> <<>>, intent |-> "",
   calls |-> <<>>, threw |-> "", query |-> "",
   executionResult |-> "undefined", result |-> NoResult]

InitAI == ai = IdleAI

(* mutations fall through to the query handler *)
HandlerOf_QueryAll(intent) ==
  IF intent = "message" THEN "handleMessage" ELSE "handleQuery"

(* the switch of processMessage *)
HandlerOf(intent) ==
  CASE intent = "query" -> "handleQuery"
    [] intent = "mutation" -> "handleMutation"
    [] intent = "message" -> "handleMessage"
    [] OTHER -> "handleMessage"

(* processMessage: identifyIntent and the switch on its result *)
ProcessMessageCall(message, randomResponse) ==
  LET intent == identifyIntent(message) IN
    [IdleAI EXCEPT !.message = message, !.intent = intent,
       !.handler = HandlerOf(intent),
       !.pc = IF HandlerOf(intent) = "handleMessage"
              THEN "done" ELSE "getSchemaInfo",
       !.result = IF HandlerOf(intent) = "handleMessage"
                  THEN handleMessage(randomResponse) ELSE NoResult]

ProcessMessage(message, randomResponse) ==
  /\ ai.pc = "idle"
  /\ ai' = ProcessMessageCall(message, randomResponse)
  /\ UNCHANGED <<varsUsage, varsRest>>

(* a step of handleQuery / handleMutation that throws inside the outer try *)
(* the exception escapes processMessage *)
Throws_Rethrows(step) ==
  [ai EXCEPT !.pc = "rejected", !.threw = step, !.calls = Append(@, step)]

Throws(step) ==
  [ai EXCEPT !.pc = "done", !.threw = step, !.calls = Append(@, step),
             !.result = handleError]

GetSchemaInfo(ok) ==
  /\ ai.pc = "getSchemaInfo"
  /\ ai' = IF ok
           THEN [ai EXCEPT !.calls = Append(@, "getSchemaInfo"),
                   !.pc = IF ai.handler = "handleQuery"
                          THEN "determineRelevantQueries"
                          ELSE "determineRelevantMutations"]
           ELSE Throws("getSchemaInfo")
  /\ UNCHANGED <<varsUsage, varsRest>>

DetermineRelevantQueries(ok) ==
  /\ ai.pc = "determineRelevantQueries"
  /\ ai' = IF ok
           THEN [ai EXCEPT !.calls = Append(@, "determineRelevantQueries"),
                   !.pc = "buildQuery"]
           ELSE Throws("determineRelevantQueries")
  /\ UNCHANGED <<varsUsage, varsRest>>

(* the methods the class AIExternal has *)
AIExternalMethods ==
  {"buildQuery", "buildMutation", "determineRelevantQueries",
   "determineRelevantMutations", "generateSummary",
   "keywordBasedQueryMatching", "keywordBasedMutationMatching",
   "generateBasicSummary"}

(* AIExternal.buildQuery: the text generateText gives or, in the catch
   block, the templated query for this.determineOperationFromQueries(...);
   the call of a method the object does not have throws a TypeError, which
   leaves the catch block *)
buildQuery(generated) ==
  IF generated THEN [rejects |-> FALSE, query |-> "generated"]
  ELSE IF "determineOperationFromQueries" \in AIExternalMethods
       THEN [rejects |-> FALSE, query |-> "fallback"]
       ELSE [rejects |-> TRUE, query |-> ""]

BuildQuery(ok) ==
  /\ ai.pc = "buildQuery"
  /\ ai' = IF ~buildQuery(ok).rejects
           THEN [ai EXCEPT !.calls = Append(@, "buildQuery"),
                   !.query = buildQuery(ok).query,
                   !.pc = "executeGraphQLQuery"]
           ELSE Throws("buildQuery")
  /\ UNCHANGED <<varsUsage, varsRest>>

(* the inner try / catch of handleQuery *)
QueryFailed ==
  QueryResult(ai.query, getMockData("products").executionResult,
              getMockData("products").summary)

(* what the store answers to a query *)
StoreData == {"storeData", "emptyData"}

(* AIExternal.generateSummary: a text about the data it is given *)
generateSummary(data) ==
  CASE data = "storeData" -> "storeSummary"
    [] data = "emptyData" -> "emptySummary"
    [] OTHER -> "basicSummary"

(* a failed execution is tried again *)
ExecuteGraphQLQuery_Retry(ok) ==
  /\ ai.pc = "executeGraphQLQuery"
  /\ Len(ai.calls) < 5
  /\ ai' = IF ok
           THEN [ai EXCEPT !.calls = Append(@, "executeGraphQLQuery"),
                   !.executionResult = "storeData", !.pc = "generateSummary"]
           ELSE [ai EXCEPT !.calls = Append(@, "executeGraphQLQuery")]
  /\ UNCHANGED <<varsUsage, varsRest>>

ExecuteGraphQLQuery(ok) ==
  /\ ai.pc = "executeGraphQLQuery"
  /\ \E data \in StoreData :
       ai' = IF ok
             THEN [ai EXCEPT !.calls = Append(@, "executeGraphQLQuery"),
                     !.executionResult = data, !.pc = "generateSummary"]
             ELSE [ai EXCEPT !.calls = Append(@, "executeGraphQLQuery"),
                     !.threw = "executeGraphQLQuery", !.pc = "done",
                     !.result = QueryFailed]
  /\ UNCHANGED <<varsUsage, varsRest>>

GenerateSummary(ok) ==
  /\ ai.pc = "generateSummary"
  /\ ai' = IF ok
           THEN [ai EXCEPT !.calls = Append(@, "generateSummary"),
                   !.pc = "done",
                   !.result = QueryResult(ai.query, ai.executionResult,
                                          generateSummary(ai.executionResult))]
           ELSE [ai EXCEPT !.calls = Append(@, "generateSummary"),
                   !.threw = "generateSummary", !.pc = "done",
                   !.result = QueryFailed]
  /\ UNCHANGED <<varsUsage, varsRest>>

DetermineRelevantMutations(ok) ==
  /\ ai.pc = "determineRelevantMutations"
  /\ ai' = IF ok
           THEN [ai EXCEPT !.calls = Append(@, "determineRelevantMutations"),
                   !.pc = "done", !.result = MutationResult]
           ELSE Throws("determineRelevantMutations")
  /\ UNCHANGED <<varsUsage, varsRest>>

(* the caller has taken the result *)
AIReturn ==
  /\ ai.pc = "done"
  /\ ai' = IdleAI
  /\ UNCHANGED <<varsUsage, varsRest>>

(***************************************************************************)
(* The chat history: loader action "messages", ChatService.getMessages and *)
(* ChatDal.findMessages.                                                   *)
(***************************************************************************)
DefaultLimit == 50

(* the query parameter limit of the loader: absent, or a number *)
LimitParams == {"", "1", "2"}

(* parseInt(url.searchParams.get("limit") || "50") *)
ParseLimit(param) ==
  CASE param = "" -> DefaultLimit
    [] param = "1" -> 1
    [] param = "2" -> 2

(* where: {shop} *)
MessagesOf(shop) ==
  {i \in 1..Len(chatMessages) : chatMessages[i].shop = shop}

(* orderBy: {timestamp: "asc"}: the rows in an order of ascending          *)
(* timestamp; rows of equal timestamp come in any order                    *)
OrderedByTimestamp(rows) ==
  {f \in [1..Cardinality(rows) -> rows] :
     /\ \A i, j \in DOMAIN f : i # j => f[i] # f[j]
     /\ \A i, j \in DOMAIN f :
          i < j => chatMessages[f[i]].timestamp <= chatMessages[f[j]].timestamp}

(* take: limit *)
Take(rows, limit) ==
  SubSeq(rows, 1, IF limit < Len(rows) THEN limit ELSE Len(rows))

findMessages(shop, limit) ==
  {[i \in DOMAIN Take(f, limit) |-> chatMessages[Take(f, limit)[i]]] :
     f \in OrderedByTimestamp(MessagesOf(shop))}

CallGetMessages(p, shop, param) ==
  /\ Idle(p)
  /\ req' = [req EXCEPT ![p] =
       [IdleReq EXCEPT !.op = "getMessages", !.method = "getMessages",
          !.pc = "findMessages", !.shop = shop, !.limit = ParseLimit(param)]]
  /\ UNCHANGED <<now, subscriptions, usageRecords, chatMessages, ai, varsRest>>

FindMessages(p) ==
  /\ req[p].pc = "findMessages"
  /\ \E found \in findMessages(req[p].shop, req[p].limit) :
       req' = [req EXCEPT ![p].messages = found,
                 ![p].calls = Append(@, "findMessages"),
                 ![p].pc = "done"]
  /\ UNCHANGED <<now, subscriptions, usageRecords, chatMessages, ai, varsRest>>

(***************************************************************************)
(* Conversations: ChatService and ChatDal.  A title or metadata that is    *)
(* not given is Undefined; a column that is not set is "null".  The column *)
(* updatedAt has no default in the database: the client sets it to the     *)
(* current time whenever it creates or updates a row.                      *)
(***************************************************************************)
Titles == {"t1", "t2"}
Metadata == {"m1"}

(* data.metadata ? JSON.stringify(data.metadata) : null / undefined *)
Stringify(metadata, otherwise) ==
  IF metadata = Undefined THEN otherwise ELSE metadata

OrNull(value) == IF value = Undefined THEN "null" ELSE value

(* a column keeps its value when the data given for it is undefined *)
SetIfDefined(old, value) == IF value = Undefined THEN old ELSE value

(* where: {id, shop} *)
ConversationRow(id, shop) ==
  IF \E i \in 1..Len(conversations) :
       conversations[i].id = id /\ conversations[i].shop = shop
  THEN CHOOSE i \in 1..Len(conversations) :
         conversations[i].id = id /\ conversations[i].shop = shop
  ELSE 0

ConversationCall(op, shop) ==
  [IdleReq EXCEPT !.op = op, !.method = op, !.pc = op, !.shop = shop,
     !.updatedAt = now]

CallCreateConversation(p, shop, title, metadata) ==
  /\ Idle(p)
  /\ req' = [req EXCEPT ![p] =
       [ConversationCall("createConversation", shop) EXCEPT
          !.title = title, !.metadata = Stringify(metadata, "null")]]
  /\ UNCHANGED <<now, subscriptions, usageRecords, chatMessages, ai, varsRest>>

CallUpdateConversation(p, id, shop, title, metadata) ==
  /\ Idle(p)
  /\ req' = [req EXCEPT ![p] =
       [ConversationCall("updateConversation", shop) EXCEPT
          !.id = id, !.title = title,
          !.metadata = Stringify(metadata, Undefined)]]
  /\ UNCHANGED <<now, subscriptions, usageRecords, chatMessages, ai, varsRest>>

CallDeleteConversation(p, id, shop) ==
  /\ Idle(p)
  /\ req' = [req EXCEPT ![p] =
       [ConversationCall("deleteConversation", shop) EXCEPT !.id = id]]
  /\ UNCHANGED <<now, subscriptions, usageRecords, chatMessages, ai, varsRest>>

CallGetConversations(p, shop) ==
  /\ Idle(p)
  /\ req' = [req EXCEPT ![p] = ConversationCall("getConversations", shop)]
  /\ UNCHANGED <<now, subscriptions, usageRecords, chatMessages, ai, varsRest>>

(* ChatDal.createConversation *)
CreateConversation(p) ==
  /\ req[p].pc = "createConversation"
  /\ Len(conversations) < MaxConversations
  /\ LET c == [id |-> Len(conversations) + 1, shop |-> req[p].shop,
               title |-> OrNull(req[p].title), metadata |-> req[p].metadata,
               createdAt |-> now, updatedAt |-> req[p].updatedAt,
               isActive |-> TRUE] IN
       /\ conversations' = Append(conversations, c)
       /\ req' = [req EXCEPT ![p].conversation = c,
                    ![p].calls = Append(@, "createConversation"),
                    ![p].pc = "done"]
  /\ UNCHANGED <<now, subscriptions, usageRecords, chatMessages, ai, route, chat,
               introspection>>

(* an update of a row that does not exist throws *)
UpdateRow(p, call, i, row) ==
  IF i = 0
  THEN /\ req' = [req EXCEPT ![p].pc = "failed", ![p].calls = Append(@, call)]
       /\ UNCHANGED conversations
  ELSE /\ conversations' = [conversations EXCEPT ![i] = row]
       /\ req' = [req EXCEPT ![p].conversation = row,
                    ![p].calls = Append(@, call), ![p].pc = "done"]

(* updatedAt is left as it was *)
UpdatedConversation_Stale(c, title, metadata, updatedAt) ==
  [c EXCEPT !.title = SetIfDefined(@, title),
            !.metadata = SetIfDefined(@, metadata)]

(* ChatDal.updateConversation with the data ChatService passes *)
UpdatedConversation(c, title, metadata, updatedAt) ==
  [c EXCEPT !.title = SetIfDefined(@, title),
            !.metadata = SetIfDefined(@, metadata),
            !.updatedAt = updatedAt]

UpdateConversation(p) ==
  /\ req[p].pc = "updateConversation"
  /\ LET i == ConversationRow(req[p].id, req[p].shop) IN
       UpdateRow(p, "updateConversation", i,
         IF i = 0 THEN NoConversation
         ELSE UpdatedConversation(conversations[i], req[p].title,
                                  req[p].metadata, req[p].updatedAt))
  /\ UNCHANGED <<now, subscriptions, usageRecords, chatMessages, ai, route, chat,
               introspection>>

(* the row is removed *)
DeletedConversation_Removed(c, updatedAt) == NoConversation

(* ChatDal.deleteConversation: data {isActive: false} *)
DeletedConversation(c, updatedAt) ==
  [c EXCEPT !.isActive = FALSE, !.updatedAt = updatedAt]

DeleteConversation(p) ==
  /\ req[p].pc = "deleteConversation"
  /\ LET i == ConversationRow(req[p].id, req[p].shop) IN
       UpdateRow(p, "deleteConversation", i,
         IF i = 0 THEN NoConversation
         ELSE DeletedConversation(conversations[i], req[p].updatedAt))
  /\ UNCHANGED <<now, subscriptions, usageRecords, chatMessages, ai, route, chat,
               introspection>>

(* where: {shop, isActive: true} *)
ActiveConversations(shop) ==
  {i \in 1..Len(conversations) :
     conversations[i].shop = shop /\ conversations[i].isActive}

(* orderBy: {updatedAt: "desc"}; rows of equal updatedAt come in any order *)
OrderedByUpdatedAtDesc(rows) ==
  {f \in [1..Cardinality(rows) -> rows] :
     /\ \A i, j \in DOMAIN f : i # j => f[i] # f[j]
     /\ \A i, j \in DOMAIN f :
          i < j => conversations[f[i]].updatedAt >= conversations[f[j]].updatedAt}

findConversations(shop) ==
  {[i \in DOMAIN f |-> conversations[f[i]]] :
     f \in OrderedByUpdatedAtDesc(ActiveConversations(shop))}

FindConversations(p) ==
  /\ req[p].pc = "getConversations"
  /\ \E found \in findConversations(req[p].shop) :
       req' = [req EXCEPT ![p].listed = found,
                 ![p].calls = Append(@, "findConversations"),
                 ![p].pc = "done"]
  /\ UNCHANGED <<now, subscriptions, usageRecords, chatMessages, ai, varsRest>>

InitConversations == conversations = <<>>

(***************************************************************************)
(* The route /api/chat, action process_message.  stored is the number of   *)
(* chat messages there were when the request arrived.                      *)
(***************************************************************************)
NoResponse == [status |-> 0, intent |-> "", response |-> "", message |-> NoMessage]

IdleRoute ==
  [pc |-> "idle", shop |-> "", message |-> <<>>, stored |-> 0,
   userSaved |-> FALSE, result |-> NoResult, response |-> NoResponse]

InitRoute == route = IdleRoute

(* formData.get("message") of the requests *)
RouteMessages == {<<>>, Fragments[1], Fragments[3], Fragments[5]}

(* validation, then step 1: save the user's message *)
CallProcessMessage(shop, message) ==
  /\ route.pc = "idle"
  /\ Idle(Main)
  /\ ai.pc = "idle"
  /\ IF message = <<>>
     THEN /\ route' = [IdleRoute EXCEPT !.pc = "responded", !.shop = shop,
                         !.stored = Len(chatMessages),
                         !.response = [NoResponse EXCEPT !.status = 400,
                                         !.response = "Message is required"]]
          /\ UNCHANGED req
     ELSE /\ route' = [IdleRoute EXCEPT !.pc = "saveUser", !.shop = shop,
                         !.message = message, !.stored = Len(chatMessages)]
          /\ req' = [req EXCEPT ![Main] = SaveMessageCall(shop, "user")]
  /\ UNCHANGED <<now, subscriptions, usageRecords, chatMessages, ai, chat,
               conversations, introspection>>

(* step 2: the user's message is saved; aiService.processMessage *)
UserMessageSaved(randomResponse) ==
  /\ route.pc = "saveUser"
  /\ req[Main].pc = "done"
  /\ route' = [route EXCEPT !.pc = "processMessage", !.userSaved = TRUE]
  /\ req' = [req EXCEPT ![Main] = IdleReq]
  /\ ai' = ProcessMessageCall(route.message, randomResponse)
  /\ UNCHANGED <<now, subscriptions, usageRecords, chatMessages, chat,
               conversations, introspection>>

(* the text of the reply saved by the catch block *)
ErrorResponse(request) ==
  IF request.pc = "rejected" THEN "Usage limit exceeded"
  ELSE "trouble processing"

(* saveMessage threw: the catch block saves an error reply *)
UserMessageFailed ==
  /\ route.pc = "saveUser"
  /\ req[Main].pc \in {"rejected", "failed"}
  /\ route' = [route EXCEPT !.pc = "saveError",
                  !.response = [NoResponse EXCEPT
                                  !.response = ErrorResponse(req[Main])]]
  /\ req' = [req EXCEPT ![Main] = SaveMessageCall(route.shop, "assistant")]
  /\ UNCHANGED <<now, subscriptions, usageRecords, chatMessages, ai, chat,
               conversations, introspection>>

(* the reply is returned without being saved *)
MessageProcessed_Unsaved ==
  /\ route.pc = "processMessage"
  /\ ai.pc = "done"
  /\ route' = [route EXCEPT !.pc = "responded", !.result = ai.result,
                  !.response = [status |-> 200, intent |-> ai.result.intent,
                                response |-> ai.result.summary,
                                message |-> NoMessage]]
  /\ ai' = IdleAI
  /\ UNCHANGED <<now, subscriptions, usageRecords, chatMessages, req, chat,
               conversations, introspection>>

(* step 3: processMessage has resolved; save the assistant's reply *)
MessageProcessed ==
  /\ route.pc = "processMessage"
  /\ ai.pc = "done"
  /\ route' = [route EXCEPT !.pc = "saveAssistant", !.result = ai.result]
  /\ ai' = IdleAI
  /\ req' = [req EXCEPT ![Main] = SaveMessageCall(route.shop, "assistant")]
  /\ UNCHANGED <<now, subscriptions, usageRecords, chatMessages, chat,
               conversations, introspection>>

(* return json(...) *)
Respond ==
  /\ route.pc \in {"saveAssistant", "saveError"}
  /\ req[Main].pc = "done"
  /\ route' = [route EXCEPT !.pc = "responded",
       !.response =
         IF route.pc = "saveAssistant"
         THEN [status |-> 200, intent |-> route.result.intent,
               response |-> route.result.summary, message |-> req[Main].message]
         ELSE [status |-> 200, intent |-> "error",
               response |-> route.response.response,
               message |-> req[Main].message]]
  /\ req' = [req EXCEPT ![Main] = IdleReq]
  /\ UNCHANGED <<now, subscriptions, usageRecords, chatMessages, ai, chat,
               conversations, introspection>>

(* the client has the response *)
RouteReturn ==
  /\ route.pc = "responded"
  /\ route' = IdleRoute
  /\ UNCHANGED <<now, subscriptions, usageRecords, chatMessages, req, ai, chat,
               conversations, introspection>>

(***************************************************************************)
(* The Chat component: its state (useState) and sendMessage.  outstanding  *)
(* is the number of process_message requests whose fetch has not settled,  *)
(* parsing the number of responses whose json() has not settled.           *)
(***************************************************************************)
InitChat ==
  chat = [messages |-> <<>>, newMessage |-> <<>>, isLoading |-> FALSE,
          error |-> "null", outstanding |-> 0, parsing |-> 0]

(* what the user types into the text field *)
Inputs == {<<>>, <<" ">>, <<"h", "i">>, <<" ", "h", "i", " ">>}

(* String.prototype.trim *)
RECURSIVE trimStart(_)
trimStart(str) ==
  IF str # <<>> /\ Head(str) = " " THEN trimStart(Tail(str)) ELSE str

RECURSIVE trimEnd(_)
trimEnd(str) ==
  IF str # <<>> /\ str[Len(str)] = " "
  THEN trimEnd(SubSeq(str, 1, Len(str) - 1)) ELSE str

trim(str) == trimEnd(trimStart(str))

(* the text field is disabled while a send is in flight *)
HandleMessageChange(value) ==
  /\ ~chat.isLoading
  /\ chat' = [chat EXCEPT !.newMessage = value, !.error = "null"]
  /\ UNCHANGED <<now, subscriptions, usageRecords, chatMessages, req, ai, route,
               conversations, introspection>>

(* if (!newMessage.trim() || isLoading) return *)
SendIgnored(newMessage, isLoading) == trim(newMessage) = <<>> \/ isLoading

ShownMessage(role, message) ==
  [role |-> role, message |-> message, timestamp |-> now]

(* sendMessage up to the await of fetch; an ignored call is left out, it   *)
(* changes nothing                                                        *)
SendMessage ==
  /\ ~SendIgnored(chat.newMessage, chat.isLoading)
  /\ Len(chat.messages) + 2 * (chat.outstanding + chat.parsing + 1) <= MaxShown
  /\ chat' = [chat EXCEPT !.isLoading = TRUE, !.error = "null",
                 !.messages = Append(@, ShownMessage("user", trim(chat.newMessage))),
                 !.newMessage = <<>>,
                 !.outstanding = @ + 1]
  /\ UNCHANGED <<now, subscriptions, usageRecords, chatMessages, req, ai, route,
               conversations, introspection>>

(* the catch block shows the error banner only *)
SendFailed_BannerOnly(state, error) ==
  [state EXCEPT !.error = error, !.isLoading = FALSE]

(* the catch block and finally *)
SendFailed(state, error) ==
  [state EXCEPT !.error = error,
     !.messages = Append(@, ShownMessage("assistant", <<"t", "r", "o", "u", "b", "l", "e">>)),
     !.isLoading = FALSE]

(* fetch settles: a response that is ok, one that is not, or a rejection *)
FetchSettles(outcome) ==
  /\ chat.outstanding > 0
  /\ chat' = IF outcome = "ok"
             THEN [chat EXCEPT !.outstanding = @ - 1, !.parsing = @ + 1]
             ELSE SendFailed([chat EXCEPT !.outstanding = @ - 1], outcome)
  /\ UNCHANGED <<now, subscriptions, usageRecords, chatMessages, req, ai, route,
               conversations, introspection>>

(* response.json() settles: a reply, an error payload, or a rejection *)
JsonSettles(outcome) ==
  /\ chat.parsing > 0
  /\ chat' = IF outcome = "response"
             THEN [chat EXCEPT !.parsing = @ - 1,
                     !.messages = Append(@, ShownMessage("assistant", <<"r", "e", "p", "l", "y">>)),
                     !.isLoading = FALSE]
             ELSE SendFailed([chat EXCEPT !.parsing = @ - 1], outcome)
  /\ UNCHANGED <<now, subscriptions, usageRecords, chatMessages, req, ai, route,
               conversations, introspection>>

(***************************************************************************)
(* GraphQLIntrospectionService.  clock is Date.now() in milliseconds; the  *)
(* two maps hold an entry for the keys in their DOMAIN.  A call of         *)
(* getSchema runs up to its first await at once, then waits for            *)
(* admin.graphql and for response.json.                                    *)
(***************************************************************************)
CACHE_DURATION == 1000 * 60 * 30

CacheKeys == {Undefined, "shop_key"}
Schemas == {"schema1", "schema2"}
EmptyMap == [k \in {} |-> Undefined]

(* cacheKey = 'shopify_admin' *)
CacheKeyOrDefault(cacheKey) ==
  IF cacheKey = Undefined THEN "shopify_admin" ELSE cacheKey

MapSet(map, key, value) ==
  [k \in DOMAIN map \cup {key} |-> IF k = key THEN value ELSE map[k]]

IdleCall == [pc |-> "idle", cacheKey |-> "", requests |-> 0, returned |-> Undefined]

InitIntrospection ==
  introspection =
    [clock |-> 1, elapses |-> 0, schemaCache |-> EmptyMap,
     cacheExpiry |-> EmptyMap, call |-> [p \in Procs |-> IdleCall]]

(* time passes *)
Elapse(ms) ==
  /\ introspection.elapses < MaxElapses
  /\ introspection' = [introspection EXCEPT !.clock = @ + ms, !.elapses = @ + 1]
  /\ UNCHANGED <<varsUsage, ai, route, chat, conversations>>

(* the entry is served up to and including the instant of its expiry *)
CacheHit_AtExpiry(cacheKey) ==
  /\ cacheKey \in DOMAIN introspection.schemaCache
  /\ cacheKey \in DOMAIN introspection.cacheExpiry
  /\ introspection.cacheExpiry[cacheKey] # 0
  /\ introspection.clock <= introspection.cacheExpiry[cacheKey]

(* cached && expiry && Date.now() < expiry *)
CacheHit(cacheKey) ==
  /\ cacheKey \in DOMAIN introspection.schemaCache
  /\ cacheKey \in DOMAIN introspection.cacheExpiry
  /\ introspection.cacheExpiry[cacheKey] # 0
  /\ introspection.clock < introspection.cacheExpiry[cacheKey]

(* getSchema up to the return of the cached schema or to admin.graphql *)
CallGetSchema(p, cacheKey) ==
  /\ introspection.call[p].pc = "idle"
  /\ LET key == CacheKeyOrDefault(cacheKey) IN
       introspection' = [introspection EXCEPT !.call[p] =
         IF CacheHit(key)
         THEN [pc |-> "done", cacheKey |-> key, requests |-> 0,
               returned |-> introspection.schemaCache[key]]
         ELSE [pc |-> "graphql", cacheKey |-> key, requests |-> 1,
               returned |-> Undefined]]
  /\ UNCHANGED <<varsUsage, ai, route, chat, conversations>>

(* await admin.graphql(introspectionQuery) *)
IntrospectionResponds(p, ok) ==
  /\ introspection.call[p].pc = "graphql"
  /\ introspection' = [introspection EXCEPT !.call[p].pc =
       IF ok THEN "json" ELSE "failed"]
  /\ UNCHANGED <<varsUsage, ai, route, chat, conversations>>

(* await response.json(); result.errors and a result that cannot be parsed
   throw; otherwise the schema is cached and returned *)
IntrospectionResult(p, result) ==
  /\ introspection.call[p].pc = "json"
  /\ LET key == introspection.call[p].cacheKey IN
       introspection' =
         IF result \in Schemas
         THEN [introspection EXCEPT
                 !.schemaCache = MapSet(@, key, result),
                 !.cacheExpiry = MapSet(@, key, introspection.clock + CACHE_DURATION),
                 !.call[p].returned = result,
                 !.call[p].pc = "done"]
         ELSE [introspection EXCEPT !.call[p].pc = "failed"]
  /\ UNCHANGED <<varsUsage, ai, route, chat, conversations>>

(* the caller has taken the schema (or the error) *)
GetSchemaReturn(p) ==
  /\ introspection.call[p].pc \in {"done", "failed"}
  /\ introspection' = [introspection EXCEPT !.call[p] = IdleCall]
  /\ UNCHANGED <<varsUsage, ai, route, chat, conversations>>

InitRest ==
  InitRoute /\ InitChat /\ InitConversations /\ InitIntrospection

vars ==
  <<now, subscriptions, usageRecords, chatMessages, req, ai, route, chat,
    conversations, introspection>>

Init == InitUsage /\ InitAI /\ InitRest

(***************************************************************************)
(* The chat module: ChatService.saveMessage, with UsageService.trackUsage  *)
(* called from elsewhere; requests are served one at a time.               *)
(***************************************************************************)
ChatCall(p) ==
  \/ \E shop \in Shops, role \in Roles : CallSaveMessage(p, shop, role)
  \/ \E shop \in Shops, usageType \in UsageTypes, count \in Counts :
       CallTrackUsage(p, shop, usageType, count)

ChatStep(p) ==
  \/ GetOrCreateFind(p)
  \/ GetOrCreateCreate(p)
  \/ CheckUsageLimit(p)
  \/ CreateMessage(p)
  \/ CreateUsageRecord(p)

Next ==
  \/ Tick
  \/ ChatCall(Main)
  \/ ChatStep(Main)
  \/ Return(Main)

Spec == Init /\ [][Next]_vars

(***************************************************************************)
(* The usage module: the methods of UsageService called through the        *)
(* UsageController, one request at a time.                                 *)
(***************************************************************************)
UsageCall(p) ==
  \/ \E shop \in Shops, usageType \in UsageTypes, count \in Counts :
       CallTrackUsage(p, shop, usageType, count)
  \/ \E shop \in Shops, usageType \in UsageTypes \cup {Undefined} :
       CallCheckUsageLimit(p, shop, usageType)
  \/ \E shop \in Shops, usageType \in UsageTypes \cup {Undefined} :
       CallGetUsageForCurrentMonth(p, shop, usageType)
  \/ \E shop \in Shops, planName \in PlanNames :
       CallUpdateSubscription(p, shop, planName)

UsageStep(p) ==
  \/ GetOrCreateFind(p)
  \/ GetOrCreateCreate(p)
  \/ CheckUsageLimit(p)
  \/ GetUsageForCurrentMonth(p)
  \/ CreateUsageRecord(p)
  \/ UpdateSubscription(p)

NextUsage ==
  \/ Tick
  \/ UsageCall(Main)
  \/ UsageStep(Main)
  \/ Return(Main)

SpecUsage == Init /\ [][NextUsage]_vars

(***************************************************************************)
(* The AI module: AIService.processMessage, one message at a time.         *)
(***************************************************************************)
NextAI ==
  \/ /\ ai.pc = "idle"
     /\ \E message \in Messages, r \in Responses : ProcessMessage(message, r)
  \/ \E ok \in BOOLEAN : GetSchemaInfo(ok)
  \/ \E ok \in BOOLEAN : DetermineRelevantQueries(ok)
  \/ \E ok \in BOOLEAN : BuildQuery(ok)
  \/ \E ok \in BOOLEAN : ExecuteGraphQLQuery(ok)
  \/ \E ok \in BOOLEAN : GenerateSummary(ok)
  \/ \E ok \in BOOLEAN : DetermineRelevantMutations(ok)
  \/ AIReturn

SpecAI == Init /\ [][NextAI]_vars

(***************************************************************************)
(* The route with the chat and AI modules behind it, one request at a      *)
(* time; usage is also tracked from elsewhere between requests.            *)
(***************************************************************************)
RouteStep ==
  \/ \E r \in Responses : UserMessageSaved(r)
  \/ UserMessageFailed
  \/ MessageProcessed
  \/ Respond
  \/ RouteReturn

AIStep ==
  \/ \E ok \in BOOLEAN : GetSchemaInfo(ok)
  \/ \E ok \in BOOLEAN : DetermineRelevantQueries(ok)
  \/ \E ok \in BOOLEAN : BuildQuery(ok)
  \/ \E ok \in BOOLEAN : ExecuteGraphQLQuery(ok)
  \/ \E ok \in BOOLEAN : GenerateSummary(ok)
  \/ \E ok \in BOOLEAN : DetermineRelevantMutations(ok)

NextRoute ==
  \/ Tick
  \/ \E shop \in Shops, message \in RouteMessages :
       CallProcessMessage(shop, message)
  \/ RouteStep
  \/ ChatStep(Main)
  \/ AIStep
  \/ /\ route.pc = "idle"
     /\ \E shop \in Shops, count \in Counts :
          CallTrackUsage(Main, shop, "chat_query", count)
  \/ /\ route.pc = "idle"
     /\ Return(Main)

SpecRoute == Init /\ [][NextRoute]_vars

(***************************************************************************)
(* The chat history of a shop: messages are saved and the history is       *)
(* loaded, one request at a time.                                          *)
(***************************************************************************)
NextHistory ==
  \/ Tick
  \/ \E shop \in Shops, role \in Roles : CallSaveMessage(Main, shop, role)
  \/ \E shop \in Shops, param \in LimitParams :
       CallGetMessages(Main, shop, param)
  \/ ChatStep(Main)
  \/ FindMessages(Main)
  \/ Return(Main)

SpecHistory == Init /\ [][NextHistory]_vars

(***************************************************************************)
(* The Chat component with its user and the server's answers.              *)
(***************************************************************************)
NextChat ==
  \/ Tick
  \/ \E value \in Inputs : HandleMessageChange(value)
  \/ SendMessage
  \/ \E outcome \in {"ok", "HTTP error", "exception"} : FetchSettles(outcome)
  \/ \E outcome \in {"response", "error payload", "exception"} :
       JsonSettles(outcome)

SpecChat == Init /\ [][NextChat]_vars

(***************************************************************************)
(* The conversations of the shops, one request at a time.                  *)
(***************************************************************************)
ConversationCalls(p) ==
  \/ \E shop \in Shops, title \in {Undefined, "t1"},
        metadata \in Metadata \cup {Undefined} :
       CallCreateConversation(p, shop, title, metadata)
  \/ \E id \in 1..MaxConversations, shop \in Shops,
        title \in {Undefined, "t2"}, metadata \in Metadata \cup {Undefined} :
       CallUpdateConversation(p, id, shop, title, metadata)
  \/ \E id \in 1..MaxConversations, shop \in Shops :
       CallDeleteConversation(p, id, shop)
  \/ \E shop \in Shops : CallGetConversations(p, shop)

ConversationStep(p) ==
  \/ CreateConversation(p)
  \/ UpdateConversation(p)
  \/ DeleteConversation(p)
  \/ FindConversations(p)

NextConversations ==
  \/ Tick
  \/ ConversationCalls(Main)
  \/ ConversationStep(Main)
  \/ Return(Main)

SpecConversations == Init /\ [][NextConversations]_vars

(***************************************************************************)
(* The chat module under concurrent requests: every await of a request is  *)
(* a point where the other request can run.                                *)
(***************************************************************************)
NextConcurrent ==
  \/ Tick
  \/ \E p \in Procs :
       \/ \E shop \in Shops : CallSaveMessage(p, shop, "user")
       \/ \E shop \in Shops, count \in Counts :
            CallTrackUsage(p, shop, "chat_query", count)
       \/ ChatStep(p)
       \/ Return(p)

SpecConcurrent == Init /\ [][NextConcurrent]_vars

(***************************************************************************)
(* The introspection service: calls of getSchema, which may overlap, while *)
(* time passes.                                                            *)
(***************************************************************************)
NextIntrospection ==
  \/ \E ms \in {1, CACHE_DURATION - 1} : Elapse(ms)
  \/ \E p \in Procs :
       \/ \E cacheKey \in CacheKeys : CallGetSchema(p, cacheKey)
       \/ \E ok \in BOOLEAN : IntrospectionResponds(p, ok)
       \/ \E result \in Schemas \cup {"errors", "malformed"} :
            IntrospectionResult(p, result)
       \/ GetSchemaReturn(p)

SpecIntrospection == Init /\ [][NextIntrospection]_vars

(***************************************************************************)
(* Notions the properties are stated in.                                   *)
(***************************************************************************)
RECURSIVE SumOver(_)
SumOver(rows) ==
  IF rows = {} THEN 0
  ELSE LET i == CHOOSE j \in rows : TRUE IN
       usageRecords[i].count + SumOver(rows \ {i})

(* the usage a shop has recorded in the calendar month of the clock *)
CalendarMonthUsage(shop, usageType) ==
  SumOver({i \in 1..Len(usageRecords) :
             /\ usageRecords[i].shop = shop
             /\ MonthOf(usageRecords[i].date) = MonthOf(now)
             /\ (usageType # Undefined => usageRecords[i].usageType = usageType)})

(* the request has made the DAL call *)
Called(p, name) == \E i \in 1..Len(req[p].calls) : req[p].calls[i] = name

UserSave(p) == req[p].op = "saveMessage" /\ req[p].role = "user"
OtherSave(p) == req[p].op = "saveMessage" /\ req[p].role # "user"

(***************************************************************************)
(* C1: saveMessage with role "user" whose usage check says the shop is not *)
(* within its limit rejects with the error built from currentUsage, limit  *)
(* and planName of that check, and the request has created no chat message *)
(* and no usage record.                                                    *)
(***************************************************************************)
C1_LimitExceededRejects ==
  \A p \in Procs :
    (UserSave(p) /\ req[p].usageCheck # NoCheck /\ ~req[p].usageCheck.isWithinLimit)
      => /\ req[p].pc = "rejected"
         /\ req[p].error = [currentUsage |-> req[p].usageCheck.currentUsage,
                            limit |-> req[p].usageCheck.limit,
                            planName |-> req[p].usageCheck.planName]
         /\ ~Called(p, "createMessage")
         /\ ~Called(p, "createUsageRecord")
         /\ req[p].message = NoMessage
         /\ req[p].record = 0

C1_Witness ==
  \E p \in Procs :
    /\ UserSave(p)
    /\ req[p].pc = "rejected"
    /\ req[p].usageCheck.currentUsage >= 20
    /\ req[p].usageCheck.planName = "Free Plan"

(***************************************************************************)
(* C2: saveMessage with role "user" for a shop within its limit checks the *)
(* limit, then creates exactly one chat message, then records exactly one  *)
(* usage record (chat_query, count 1, same shop, dated in the current      *)
(* month, so that the shop's chat_query usage of the month grows by one)   *)
(* and returns the created message.                                        *)
(***************************************************************************)
C2_Completes(p) ==
  /\ UserSave(p)
  /\ req[p].pc = "createUsageRecord"
  /\ req'[p].pc = "done"

C2_UserSaveTracksUsage ==
  [][\A p \in Procs :
       /\ (UserSave(p) /\ req[p].usageCheck # NoCheck
             /\ req[p].usageCheck.isWithinLimit)
            => req[p].pc \in {"createMessage", "find", "create",
                              "createUsageRecord", "done"}
       /\ C2_Completes(p) =>
            /\ SelectSeq(req'[p].calls, LAMBDA c : c \in
                 {"findUsageRecords", "createMessage", "createUsageRecord"})
                 = <<"findUsageRecords", "createMessage", "createUsageRecord">>
            /\ req[p].usageCheck.isWithinLimit
            /\ chatMessages' = chatMessages
            /\ chatMessages[req'[p].message.id] = req'[p].message
            /\ req'[p].message.shop = req[p].shop
            /\ req'[p].message.role = "user"
            /\ usageRecords' = Append(usageRecords, usageRecords'[req'[p].record])
            /\ usageRecords'[req'[p].record].shop = req[p].shop
            /\ usageRecords'[req'[p].record].usageType = "chat_query"
            /\ usageRecords'[req'[p].record].count = 1
            /\ CalendarMonthUsage(req[p].shop, "chat_query")' =
                 CalendarMonthUsage(req[p].shop, "chat_query") + 1]_vars

C2_Witness ==
  \E p \in Procs :
    /\ UserSave(p)
    /\ req[p].pc = "done"
    /\ req[p].record > 0
    /\ req[p].message.id > 0

(***************************************************************************)
(* C3: saveMessage with a role other than "user" makes no call of the      *)
(* usage service: it only creates the message, whatever the usage of the   *)
(* shop is, and leaves usage records and subscriptions unchanged.          *)
(***************************************************************************)
C3_OtherRolesUntracked ==
  [][\A p \in Procs :
       (OtherSave(p) /\ req'[p] # req[p] /\ req'[p].pc # "idle") =>
         /\ req[p].pc = "createMessage"
         /\ req'[p].pc = "done"
         /\ req'[p].calls = <<"createMessage">>
         /\ req'[p].usageCheck = NoCheck
         /\ chatMessages' = Append(chatMessages, req'[p].message)
         /\ req'[p].message.shop = req[p].shop
         /\ req'[p].message.role = req[p].role
         /\ UNCHANGED <<usageRecords, subscriptions>>]_vars

C3_Witness ==
  \E p \in Procs :
    /\ OtherSave(p)
    /\ req[p].pc = "done"
    /\ chatMessages[req[p].message.id].role = "assistant"
    /\ getUsageForCurrentMonth(req[p].shop, "chat_query") >= 20

(***************************************************************************)
(* C4: for a shop on the Free Plan checkUsageLimit returns limit 20, the   *)
(* plan name "Free Plan", currentUsage = the usage of the given type       *)
(* (default "chat_query") the shop has recorded in the current month, and  *)
(* isWithinLimit exactly when currentUsage < 20.                           *)
(***************************************************************************)
C4_FreePlanCheck ==
  [][\A p \in Procs :
       (/\ req[p].op = "checkUsageLimit"
        /\ req[p].pc = "findUsage"
        /\ req'[p].pc = "done"
        /\ req[p].subscription.planName = "Free Plan") =>
         /\ req'[p].usageCheck.limit = 20
         /\ req'[p].usageCheck.planName = "Free Plan"
         /\ req'[p].usageCheck.currentUsage =
              CalendarMonthUsage(req[p].shop, req[p].usageType)
         /\ req'[p].usageCheck.isWithinLimit =
              (req'[p].usageCheck.currentUsage < 20)]_vars

(***************************************************************************)
(* C5: the limit checkUsageLimit enforces is the advertised one: 20 for    *)
(* the Free Plan, 10000 for the Pro Plan, and none for the Enterprise Plan *)
(* (limit -1, within the limit at every usage level).                      *)
(***************************************************************************)
AdvertisedLimit(planName) ==
  CASE planName = "Free Plan" -> 20
    [] planName = "Pro Plan" -> 10000
    [] planName = "Enterprise Plan" -> -1

C5_AdvertisedLimits ==
  \A p \in Procs :
    (req[p].op = "checkUsageLimit" /\ req[p].pc = "done") =>
      /\ req[p].usageCheck.limit = AdvertisedLimit(req[p].usageCheck.planName)
      /\ (req[p].usageCheck.planName = "Enterprise Plan"
            => req[p].usageCheck.isWithinLimit)

(***************************************************************************)
(* C6: trackUsage and checkUsageLimit on a shop without a subscription     *)
(* create exactly one, with plan "Free Plan" and status "active"; when     *)
(* the shop has one, none is created and the existing one is not modified; *)
(* the usage record of trackUsage carries the id of the shop's             *)
(* subscription.  Every such call completes.                               *)
(***************************************************************************)
SubscriptionsOf(shop) ==
  {subscriptions[i] : i \in {j \in 1..Len(subscriptions) :
                               subscriptions[j].shop = shop}}

HadSubscription(p) ==
  \E i \in 1..Len(req[p].before) : req[p].before[i].shop = req[p].shop

C6_GetOrCreateSubscription ==
  \A p \in Procs :
    (req[p].op \in {"trackUsage", "checkUsageLimit"}) =>
      /\ req[p].pc # "failed"
      /\ req[p].pc = "done" =>
           /\ IF HadSubscription(p)
              THEN subscriptions = req[p].before
              ELSE subscriptions = Append(req[p].before,
                     [id |-> Len(req[p].before) + 1, shop |-> req[p].shop,
                      planName |-> "Free Plan", status |-> "active"])
           /\ Cardinality(SubscriptionsOf(req[p].shop)) = 1
           /\ SubscriptionsOf(req[p].shop) = {req[p].subscription}
           /\ req[p].op = "trackUsage" =>
                /\ usageRecords[req[p].record].shop = req[p].shop
                /\ usageRecords[req[p].record].subscriptionId =
                     req[p].subscription.id

C6_Witness ==
  \E p \in Procs :
    /\ req[p].op = "trackUsage"
    /\ req[p].pc = "done"
    /\ ~HadSubscription(p)
    /\ Len(subscriptions) = 2
    /\ usageRecords[req[p].record].subscriptionId = 2

(***************************************************************************)
(* C7: getUsageForCurrentMonth returns the sum of count over exactly the   *)
(* shop's usage records dated within the current calendar month, of the    *)
(* given usage type when one is given.                                     *)
(***************************************************************************)
C7_CalendarMonthSum ==
  [][\A p \in Procs :
       (/\ req[p].op = "getUsageForCurrentMonth"
        /\ req[p].pc = "findUsage"
        /\ req'[p].pc = "done") =>
         req'[p].usage = CalendarMonthUsage(req[p].shop, req[p].usageType)]_vars

(***************************************************************************)
(* C8: identifyIntent returns one of "mutation", "query", "message":       *)
(* "mutation" when some mutation keyword occurs in the message as a        *)
(* substring, letter case ignored, otherwise "query" when some query       *)
(* keyword does, otherwise "message"; the message with the case of every   *)
(* letter swapped is classified the same.                                  *)
(***************************************************************************)
UpperCaseOf ==
  [c \in {LowerCaseLetters[i] : i \in 1..Len(LowerCaseLetters)} |->
     UpperCaseLetters[CHOOSE i \in 1..Len(LowerCaseLetters) : LowerCaseLetters[i] = c]]

SameLetter(a, b) ==
  \/ a = b
  \/ a \in DOMAIN UpperCaseOf /\ UpperCaseOf[a] = b
  \/ b \in DOMAIN UpperCaseOf /\ UpperCaseOf[b] = a

Occurs(keyword, message) ==
  \E i \in 0..(Len(message) - Len(keyword)) :
    \A j \in 1..Len(keyword) : SameLetter(message[i + j], keyword[j])

OccursAny(keywords, message) ==
  \E k \in 1..Len(keywords) : Occurs(keywords[k], message)

SwapCaseChar(c) ==
  IF c \in DOMAIN UpperCaseOf THEN UpperCaseOf[c]
  ELSE IF \E d \in DOMAIN UpperCaseOf : UpperCaseOf[d] = c
  THEN CHOOSE d \in DOMAIN UpperCaseOf : UpperCaseOf[d] = c
  ELSE c

SwapCase(message) == [i \in 1..Len(message) |-> SwapCaseChar(message[i])]

C8_IntentClassifier ==
  ai.pc # "idle" =>
    LET mutation == OccursAny(mutationKeywords, ai.message)
        query == OccursAny(queryKeywords, ai.message)
    IN /\ ai.intent \in {"mutation", "query", "message"}
       /\ ai.intent = "mutation" <=> mutation
       /\ ai.intent = "query" <=> (~mutation /\ query)
       /\ identifyIntent(SwapCase(ai.message)) = ai.intent

C8_Witness ==
  /\ ai.pc # "idle"
  /\ ai.intent = "mutation"
  /\ OccursAny(queryKeywords, ai.message)
  /\ ~some(mutationKeywords, ai.message)

(***************************************************************************)
(* C9: processMessage calls dal.executeGraphQLQuery only for a message of  *)
(* intent "query"; for a message of intent "mutation" nothing is executed  *)
(* and the result has intent "mutation"; for a message of intent "message" *)
(* neither getSchemaInfo nor executeGraphQLQuery is called and the result  *)
(* has intent "message".                                                   *)
(***************************************************************************)
AICalled(name) == \E i \in 1..Len(ai.calls) : ai.calls[i] = name

C9_ExecutesOnlyQueries ==
  /\ AICalled("executeGraphQLQuery") => ai.intent = "query"
  /\ (ai.intent = "mutation" /\ ai.pc = "done") => ai.result.intent = "mutation"
  /\ (ai.intent = "message" /\ ai.pc # "idle") =>
       /\ ai.calls = <<>>
       /\ ai.pc = "done"
       /\ ai.result.intent = "message"

(* C9 as amended: the result of a mutation-intent message has intent       *)
(* "mutation" unless getSchemaInfo or determineRelevantMutations failed;   *)
(* then it is the error result, of intent "message" and empty query.       *)
C9_ExecutesOnlyQueriesUnlessFailed ==
  /\ AICalled("executeGraphQLQuery") => ai.intent = "query"
  /\ (ai.intent = "mutation" /\ ai.pc = "done") =>
       /\ ai.threw \in {"", "getSchemaInfo", "determineRelevantMutations"}
       /\ ai.threw = "" => ai.result.intent = "mutation"
       /\ ai.threw # "" => (ai.result.intent = "message" /\ ai.result.query = "")
  /\ (ai.intent = "message" /\ ai.pc # "idle") =>
       /\ ai.calls = <<>>
       /\ ai.pc = "done"
       /\ ai.result.intent = "message"

C9_Witness ==
  /\ ai.intent = "mutation"
  /\ ai.pc = "done"
  /\ ai.threw = ""
  /\ ai.calls = <<"getSchemaInfo", "determineRelevantMutations">>
  /\ ai.result.intent = "mutation"

(***************************************************************************)
(* C10: when the execution of the generated query fails, processMessage    *)
(* resolves with intent "query", executionResult null and the summary      *)
(* produced for missing data.                                              *)
(***************************************************************************)
C10_FailedQueryReportsNoData ==
  (ai.pc = "done" /\ ai.intent = "query" /\ ai.threw = "executeGraphQLQuery") =>
    /\ ai.result.intent = "query"
    /\ ai.result.executionResult = "null"
    /\ ai.result.summary = "No data available."

(***************************************************************************)
(* C11: processMessage never rejects; when getSchemaInfo or an AI step     *)
(* before the execution fails for a message of intent "query" or           *)
(* "mutation", it resolves with the result of intent "message" and empty   *)
(* query, and no GraphQL query has been executed.                          *)
(***************************************************************************)
StepsBeforeExecution ==
  {"getSchemaInfo", "determineRelevantQueries", "buildQuery",
   "determineRelevantMutations"}

C11_NeverRejects ==
  /\ ai.pc \in {"idle", "getSchemaInfo", "determineRelevantQueries",
                "buildQuery", "executeGraphQLQuery", "generateSummary",
                "determineRelevantMutations", "done"}
  /\ ai.pc = "done" => ai.result.intent \in {"query", "mutation", "message"}
  /\ ai.threw \in StepsBeforeExecution =>
       /\ ai.intent \in {"query", "mutation"}
       /\ ai.pc = "done"
       /\ ai.result.intent = "message"
       /\ ai.result.query = ""
       /\ ~AICalled("executeGraphQLQuery")

C11_Witness ==
  /\ ai.intent = "query"
  /\ ai.threw = "buildQuery"
  /\ ai.pc = "done"
  /\ ai.result = handleError

(***************************************************************************)
(* C12: for a message of intent "query" handleQuery makes its calls in the *)
(* order getSchemaInfo, determineRelevantQueries, buildQuery,              *)
(* executeGraphQLQuery, generateSummary, each after the previous one has   *)
(* completed; the query is executed at most once, and the summary of the   *)
(* result is the one generated from the data that execution returned.      *)
(***************************************************************************)
QueryFlow ==
  <<"getSchemaInfo", "determineRelevantQueries", "buildQuery",
    "executeGraphQLQuery", "generateSummary">>

C12_QueryFlowInOrder ==
  ai.handler = "handleQuery" =>
    /\ Len(ai.calls) <= Len(QueryFlow)
    /\ ai.calls = SubSeq(QueryFlow, 1, Len(ai.calls))
    /\ ai.pc # "done" => ai.pc = QueryFlow[Len(ai.calls) + 1]
    /\ Cardinality({i \in 1..Len(ai.calls) :
                      ai.calls[i] = "executeGraphQLQuery"}) <= 1
    /\ (ai.pc = "done" /\ ai.threw = "") =>
         /\ ai.calls = QueryFlow
         /\ ai.result.executionResult = ai.executionResult
         /\ ai.result.executionResult \in StoreData
         /\ ai.result.summary = generateSummary(ai.result.executionResult)

C12_Witness ==
  /\ ai.handler = "handleQuery"
  /\ ai.pc = "done"
  /\ ai.threw = ""
  /\ ai.result.executionResult = "emptyData"
  /\ ai.result.summary = "emptySummary"

(***************************************************************************)
(* C13: in a process_message request the user's message is saved (role     *)
(* "user") before the intent is identified and the AI / store processing   *)
(* starts, and the assistant's reply is saved (role "assistant") after the *)
(* processing and before the response; a request that passed validation    *)
(* and the usage check has stored exactly one user message followed by     *)
(* exactly one assistant message when it responds.                         *)
(***************************************************************************)
StoredBy(k, role) ==
  /\ Len(chatMessages) >= route.stored + k
  /\ chatMessages[route.stored + k].role = role
  /\ chatMessages[route.stored + k].shop = route.shop

C13_SavedAroundProcessing ==
  /\ ai.pc # "idle" => route.pc = "processMessage"
  /\ route.pc = "saveUser" => Len(chatMessages) <= route.stored + 1
  /\ route.pc = "processMessage" =>
       /\ Len(chatMessages) = route.stored + 1
       /\ StoredBy(1, "user")
  /\ route.pc = "saveAssistant" =>
       /\ route.result.intent \in {"query", "mutation", "message"}
       /\ Len(chatMessages) \in {route.stored + 1, route.stored + 2}
       /\ StoredBy(1, "user")
  /\ (route.pc = "responded" /\ route.userSaved) =>
       /\ Len(chatMessages) = route.stored + 2
       /\ StoredBy(1, "user")
       /\ StoredBy(2, "assistant")
       /\ route.response.message = chatMessages[route.stored + 2]
       /\ route.response.status = 200

C13_Witness ==
  /\ route.pc = "responded"
  /\ route.userSaved
  /\ route.result.intent = "query"
  /\ route.response.message.role = "assistant"
  /\ Len(chatMessages) = 2

(***************************************************************************)
(* C14: the history getMessages(shop, userId, limit) returns is in order   *)
(* of ascending timestamp and, when the shop has messages, ends with a     *)
(* most recent message of the shop, also when more than limit messages are *)
(* stored.                                                                 *)
(***************************************************************************)
C14_HistoryEndsWithMostRecent ==
  \A p \in Procs :
    (req[p].op = "getMessages" /\ req[p].pc = "done") =>
      LET found == req[p].messages IN
      /\ \A i, j \in DOMAIN found :
           i < j => found[i].timestamp <= found[j].timestamp
      /\ \A i \in DOMAIN found : found[i].shop = req[p].shop
      /\ MessagesOf(req[p].shop) # {} =>
           /\ found # <<>>
           /\ \A i \in MessagesOf(req[p].shop) :
                chatMessages[i].timestamp <= found[Len(found)].timestamp

(***************************************************************************)
(* C15: in the Chat component at most one process_message request is       *)
(* outstanding, and isLoading is set exactly while one is.  A send starts  *)
(* only from a non-blank input with no send in flight; it sets isLoading   *)
(* and appends the user's message (role "user", the trimmed input, the     *)
(* current time) as it makes the request.  When the request ends, whatever *)
(* the outcome, exactly one assistant message is appended and isLoading is *)
(* reset.                                                                  *)
(***************************************************************************)
InFlight == chat.outstanding + chat.parsing

C15_OneSendAtATime ==
  [][/\ InFlight <= 1
     /\ chat.isLoading <=> InFlight = 1
     /\ InFlight' > InFlight =>
          /\ trim(chat.newMessage) # <<>>
          /\ ~chat.isLoading
          /\ chat'.isLoading
          /\ chat'.messages =
               Append(chat.messages,
                      [role |-> "user", message |-> trim(chat.newMessage),
                       timestamp |-> now])
     /\ InFlight' < InFlight =>
          /\ Len(chat'.messages) = Len(chat.messages) + 1
          /\ SubSeq(chat'.messages, 1, Len(chat.messages)) = chat.messages
          /\ chat'.messages[Len(chat'.messages)].role = "assistant"
          /\ ~chat'.isLoading
     /\ InFlight' = InFlight => chat'.messages = chat.messages]_vars

C15_Witness ==
  /\ Len(chat.messages) = 4
  /\ chat.messages[1].role = "user"
  /\ chat.messages[2].role = "assistant"
  /\ chat.messages[4].role = "assistant"
  /\ chat.error = "error payload"
  /\ ~chat.isLoading

(***************************************************************************)
(* C16: deleteConversation(id, shop) is a soft delete: it sets isActive to *)
(* FALSE on that conversation, removes no conversation and no message and  *)
(* changes no other conversation; a conversation that is not active never  *)
(* becomes active again, and getConversations(shop) lists exactly the      *)
(* active conversations of the shop, so the deleted one is never listed    *)
(* again and every other active one still is.                              *)
(***************************************************************************)
Completes(p, op) ==
  /\ req[p].op = op
  /\ req[p].pc = op
  /\ req'[p].pc = "done"

C16_SoftDelete ==
  [][/\ \A p \in Procs : Completes(p, "deleteConversation") =>
          LET i == ConversationRow(req[p].id, req[p].shop) IN
          /\ i # 0
          /\ Len(conversations') = Len(conversations)
          /\ \A j \in 1..Len(conversations) :
               j # i => conversations'[j] = conversations[j]
          /\ ~conversations'[i].isActive
          /\ [conversations'[i] EXCEPT !.isActive = conversations[i].isActive,
                                       !.updatedAt = conversations[i].updatedAt]
               = conversations[i]
          /\ chatMessages' = chatMessages
     /\ \A i \in 1..Len(conversations) :
          /\ Len(conversations') >= i
          /\ conversations'[i].id = conversations[i].id
          /\ ~conversations[i].isActive => ~conversations'[i].isActive
     /\ \A p \in Procs : Completes(p, "getConversations") =>
          /\ {req'[p].listed[k] : k \in 1..Len(req'[p].listed)} =
               {conversations[i] : i \in
                  {j \in 1..Len(conversations) :
                     conversations[j].shop = req[p].shop
                       /\ conversations[j].isActive}}
          /\ \A k, l \in 1..Len(req'[p].listed) :
               k # l => req'[p].listed[k] # req'[p].listed[l]]_vars

C16_Witness ==
  \E p \in Procs :
    /\ req[p].op = "getConversations"
    /\ req[p].pc = "done"
    /\ Len(req[p].listed) = 1
    /\ Len(conversations) = 2
    /\ \A i \in 1..2 : conversations[i].shop = req[p].shop
    /\ ~conversations[1].isActive

(***************************************************************************)
(* C17: updateConversation sets updatedAt to the time of the call on every *)
(* call and changes the title and the metadata only when they are given.   *)
(* As the claim states it: right after the update the conversation, if it  *)
(* is active, is the first element of every list getConversations(shop)    *)
(* can return.                                                             *)
(***************************************************************************)
UpdateKeepsUngiven(p, i) ==
  /\ conversations'[i].updatedAt = req[p].updatedAt
  /\ conversations'[i].updatedAt >= conversations[i].updatedAt
  /\ conversations'[i].title =
       IF req[p].title = Undefined THEN conversations[i].title ELSE req[p].title
  /\ conversations'[i].metadata =
       IF req[p].metadata = Undefined THEN conversations[i].metadata
       ELSE req[p].metadata
  /\ [conversations'[i] EXCEPT !.title = conversations[i].title,
                               !.metadata = conversations[i].metadata,
                               !.updatedAt = conversations[i].updatedAt]
       = conversations[i]

ListedAfterwards(p) == findConversations(req[p].shop)'

C17_UpdatedIsFirst ==
  [][\A p \in Procs : Completes(p, "updateConversation") =>
       LET i == ConversationRow(req[p].id, req[p].shop) IN
       /\ UpdateKeepsUngiven(p, i)
       /\ conversations'[i].isActive =>
            \A found \in ListedAfterwards(p) : found[1].id = req[p].id]_vars

(***************************************************************************)
(* C17, amended: updatedAt is refreshed and the title and metadata change  *)
(* only when given; right after the update, getConversations(shop) lists   *)
(* the active conversations by updatedAt, latest first, and the updated    *)
(* conversation, if active, is listed before every conversation whose      *)
(* updatedAt is earlier: only conversations with the very same updatedAt   *)
(* can come before it.                                                     *)
(***************************************************************************)
C17_UpdatedBeforeEarlier ==
  [][\A p \in Procs : Completes(p, "updateConversation") =>
       LET i == ConversationRow(req[p].id, req[p].shop) IN
       /\ UpdateKeepsUngiven(p, i)
       /\ \A found \in ListedAfterwards(p) :
            /\ \A k, l \in 1..Len(found) :
                 k < l => found[k].updatedAt >= found[l].updatedAt
            /\ conversations'[i].isActive =>
                 \E k \in 1..Len(found) :
                   /\ found[k] = conversations'[i]
                   /\ \A l \in 1..Len(found) :
                        /\ l < k => found[l].updatedAt = req[p].updatedAt
                        /\ found[l].updatedAt < req[p].updatedAt => k < l]_vars

C17_Witness ==
  \E p \in Procs :
    /\ req[p].op = "updateConversation"
    /\ req[p].pc = "done"
    /\ req[p].title = Undefined
    /\ req[p].metadata # Undefined
    /\ req[p].conversation.isActive
    /\ req[p].conversation.id = 1
    /\ req[p].conversation.title # "null"
    /\ Len(conversations) = 2
    /\ conversations[1] = req[p].conversation
    /\ conversations[2].shop = req[p].shop
    /\ conversations[2].isActive
    /\ conversations[2].updatedAt < conversations[1].updatedAt

(***************************************************************************)
(* C18: for a shop on the Free Plan whose requests are served one at a     *)
(* time, a user message is rejected exactly when the chat_query usage the  *)
(* shop has recorded in the calendar month has reached 20, and the usage   *)
(* record of an accepted user message never brings that usage above 20.    *)
(***************************************************************************)
C18_FreePlanMonthlyLimit ==
  [][\A p \in Procs :
       /\ (/\ UserSave(p)
           /\ req[p].pc = "findUsage"
           /\ req'[p].pc # "findUsage"
           /\ req[p].subscription.planName = "Free Plan")
          => (req'[p].pc = "rejected"
                <=> CalendarMonthUsage(req[p].shop, "chat_query") >= 20)
       /\ (/\ UserSave(p)
           /\ req[p].pc = "createUsageRecord"
           /\ req'[p].pc = "done")
          => CalendarMonthUsage(req[p].shop, "chat_query")' <= 20]_vars

(***************************************************************************)
(* C19: with concurrent saveMessage requests of role "user", a request     *)
(* passes the usage check only when the usage the shop has recorded in the *)
(* calendar month, plus the user messages of the shop that have passed the *)
(* check and whose usage is not recorded yet, is below the plan's limit:   *)
(* two requests never both pass the check on the last free slot.           *)
(***************************************************************************)
PassedCheck(p) ==
  /\ UserSave(p)
  /\ req[p].method # "checkUsageLimit"
  /\ req[p].pc \in {"createMessage", "find", "create", "createUsageRecord"}

C19_NoDoublePass ==
  [][\A p \in Procs :
       (/\ UserSave(p)
        /\ req[p].pc = "findUsage"
        /\ req'[p].pc = "createMessage")
       => CalendarMonthUsage(req[p].shop, "chat_query")
            + Cardinality({q \in Procs \ {p} :
                             PassedCheck(q) /\ req[q].shop = req[p].shop})
            < LimitOf(req[p].subscription.planName)]_vars

(***************************************************************************)
(* C20: getSchema returns the cached schema, issuing no introspection      *)
(* request, exactly when the cache holds an entry for the key whose expiry *)
(* is strictly later than the clock; otherwise it issues one request and,  *)
(* on success, stores the schema with expiry = clock + 30 minutes; a       *)
(* failed introspection throws and leaves the cache as it was.             *)
(***************************************************************************)
FreshEntry(key) ==
  /\ key \in DOMAIN introspection.schemaCache
  /\ key \in DOMAIN introspection.cacheExpiry
  /\ introspection.cacheExpiry[key] > introspection.clock

SameCache ==
  /\ introspection'.schemaCache = introspection.schemaCache
  /\ introspection'.cacheExpiry = introspection.cacheExpiry

C20_ServedOnlyBeforeExpiry ==
  [][\A p \in Procs :
       LET before == introspection.call[p]
           after == introspection'.call[p] IN
       /\ after.requests <= 1
       /\ (before.pc = "idle" /\ after.pc # "idle") =>
            /\ SameCache
            /\ IF FreshEntry(after.cacheKey)
               THEN /\ after.pc = "done"
                    /\ after.requests = 0
                    /\ after.returned = introspection.schemaCache[after.cacheKey]
               ELSE /\ after.pc = "graphql"
                    /\ after.requests = 1
       /\ (before.pc # "idle" /\ before.pc # "done" /\ after.pc = "done") =>
            /\ after.requests = 1
            /\ after.returned \in Schemas
            /\ introspection'.schemaCache[before.cacheKey] = after.returned
            /\ introspection'.cacheExpiry[before.cacheKey] =
                 introspection.clock + 30 * 60 * 1000
            /\ \A k \in DOMAIN introspection.schemaCache \ {before.cacheKey} :
                 /\ introspection'.schemaCache[k] = introspection.schemaCache[k]
                 /\ introspection'.cacheExpiry[k] = introspection.cacheExpiry[k]
       /\ (before.pc # "failed" /\ after.pc = "failed") =>
            /\ SameCache
            /\ after.requests = 1
            /\ after.returned = Undefined]_vars

(* a schema served from the cache one millisecond before its expiry, and a
   request issued at the very instant of the expiry *)
C20_Witness ==
  \E p, q \in Procs :
    LET c == introspection.call[p]
        d == introspection.call[q] IN
    /\ c.pc = "done"
    /\ c.requests = 0
    /\ c.cacheKey = "shopify_admin"
    /\ d.pc = "graphql"
    /\ d.cacheKey = "shop_key"
    /\ d.cacheKey \in DOMAIN introspection.cacheExpiry
    /\ introspection.cacheExpiry[d.cacheKey] = introspection.clock
    /\ introspection.cacheExpiry[c.cacheKey] = introspection.clock + 1

(***************************************************************************)
(* C21: AIExternal.buildQuery never rejects: whether or not generateText   *)
(* gives a text, it resolves with a query (the generated one or the        *)
(* templated fallback), and handleQuery goes on to execute that query.     *)
(***************************************************************************)
C21_BuildQueryNeverRejects ==
  [][(ai.pc = "buildQuery" /\ ai'.pc # "buildQuery") =>
       /\ ai'.pc = "executeGraphQLQuery"
       /\ ai'.threw = ""
       /\ ai'.query \in {"generated", "fallback"}]_vars

(***************************************************************************)
(* C22: with concurrent trackUsage / checkUsageLimit calls, each doing     *)
(* find-then-create in getOrCreateSubscription, there is at most one       *)
(* subscription per shop in every state, no call ends with an error, and a *)
(* call that has completed leaves exactly one subscription for its shop.   *)
(***************************************************************************)
SubscriptionRows(shop) ==
  {i \in 1..Len(subscriptions) : subscriptions[i].shop = shop}

C22_OneSubscriptionNoError ==
  /\ \A shop \in Shops : Cardinality(SubscriptionRows(shop)) <= 1
  /\ \A p \in Procs :
       (req[p].method \in {"trackUsage", "checkUsageLimit"}) =>
         /\ req[p].pc # "failed"
         /\ req[p].pc = "done" =>
              Cardinality(SubscriptionRows(req[p].shop)) = 1
====
